---- MODULE Spec2Model ----
(***************************************************************************)
(* Model of the shape composition algebra of nest (src/src/shape/mod.rs):   *)
(* Rect, Tri, RendTri, Positions and the Shape combinators translate,       *)
(* rotate and combine.  Coordinates are f32 in the source, so the model     *)
(* carries them as binary32 values with round-to-nearest-even arithmetic.   *)
(***************************************************************************)
EXTENDS Integers, Sequences, FiniteSets

(***************************************************************************)
(* binary32 arithmetic.  A finite f32 is <<m, e>> standing for m * 2^e,     *)
(* with 2^23 <= |m| < 2^24 (the 24 bit significand), or <<0, 0>> for zero.  *)
(* Infinities, NaN, subnormals and the sign of zero are outside the model:  *)
(* the inputs below never produce them.                                     *)
(***************************************************************************)
Pow2Table ==
    << 1, 2, 4, 8, 16, 32, 64, 128, 256, 512, 1024, 2048, 4096, 8192, 16384,
       32768, 65536, 131072, 262144, 524288, 1048576, 2097152, 4194304,
       8388608, 16777216, 33554432, 67108864, 134217728, 268435456,
       536870912, 1073741824 >>

Pow2(k) == Pow2Table[k + 1]

\* significand width of f32 (f32::MANTISSA_DIGITS)
Prec == 24

Abs(n) == IF n < 0 THEN -n ELSE n

Sgn(n) == IF n < 0 THEN -1 ELSE 1

\* number of bits of the natural n (0 for 0), n < 2^31
BitLen(n) ==
    IF n >= Pow2(23)
    THEN CHOOSE k \in 24..31 : n >= Pow2(k - 1) /\ (k = 31 \/ n < Pow2(k))
    ELSE CHOOSE k \in 0..23 : n < Pow2(k) /\ (k = 0 \/ n >= Pow2(k - 1))

F32Zero == <<0, 0>>

\* mag * 2^e, mag a natural below 2^31, rounded to 24 bits, ties to even;
\* the result is <<significand, exponent, exact>>
RoundMag(mag, e) ==
    IF mag = 0 THEN <<0, 0, TRUE>>
    ELSE LET k == BitLen(mag) - Prec IN
         IF k <= 0 THEN <<mag * Pow2(-k), e + k, TRUE>>
         ELSE LET q    == mag \div Pow2(k)
                  r    == mag % Pow2(k)
                  half == Pow2(k - 1)
                  up   == r > half \/ (r = half /\ q % 2 = 1)
                  q1   == IF up THEN q + 1 ELSE q
              IN  IF q1 = Pow2(Prec) THEN <<Pow2(Prec - 1), e + k + 1, r = 0>>
                  ELSE <<q1, e + k, r = 0>>

\* x + y with the flag telling whether the sum was representable
F32AddX(x, y) ==
    IF x[1] = 0 THEN <<y[1], y[2], TRUE>>
    ELSE IF y[1] = 0 THEN <<x[1], x[2], TRUE>>
    ELSE LET hi == IF x[2] >= y[2] THEN x ELSE y
             lo == IF x[2] >= y[2] THEN y ELSE x
             d  == hi[2] - lo[2]
         IN  IF d <= 6
             THEN LET s == hi[1] * Pow2(d) + lo[1]
                      r == RoundMag(Abs(s), lo[2])
                  IN  <<Sgn(s) * r[1], r[2], r[3]>>
             ELSE LET sh  == d - 6
                      q   == IF sh >= Prec THEN 0 ELSE Abs(lo[1]) \div Pow2(sh)
                      st  == IF sh >= Prec THEN TRUE ELSE Abs(lo[1]) % Pow2(sh) # 0
                      jam == IF st /\ q % 2 = 0 THEN q + 1 ELSE q
                      s   == hi[1] * 64 + Sgn(lo[1]) * jam
                      r   == RoundMag(Abs(s), hi[2] - 6)
                  IN  <<Sgn(s) * r[1], r[2], r[3] /\ ~st>>

F32Add(x, y) == LET r == F32AddX(x, y) IN <<r[1], r[2]>>

F32AddExact(x, y) == F32AddX(x, y)[3]

F32Neg(x) == <<-x[1], x[2]>>

F32Sub(x, y) == F32Add(x, F32Neg(y))

\* x * y: the 48 bit product of the significands in 12 bit limbs, then rounded
F32Mul(x, y) ==
    IF x[1] = 0 \/ y[1] = 0 THEN F32Zero
    ELSE LET a    == Abs(x[1])
             b    == Abs(y[1])
             a1   == a \div 4096
             a0   == a % 4096
             b1   == b \div 4096
             b0   == b % 4096
             mid  == a1 * b0 + a0 * b1
             low  == (mid % 4096) * 4096 + a0 * b0
             high == a1 * b1 + mid \div 4096 + low \div Pow2(24)
             rest == low % Pow2(24)
             sg   == Sgn(x[1]) * Sgn(y[1])
             e    == x[2] + y[2]
         IN  IF high >= Pow2(23)
             THEN LET up == rest > Pow2(23) \/ (rest = Pow2(23) /\ high % 2 = 1)
                      q1 == IF up THEN high + 1 ELSE high
                  IN  IF q1 = Pow2(24) THEN <<sg * Pow2(23), e + 25>>
                      ELSE <<sg * q1, e + 24>>
             ELSE LET q  == 2 * high + rest \div Pow2(23)
                      r  == rest % Pow2(23)
                      up == r > Pow2(22) \/ (r = Pow2(22) /\ q % 2 = 1)
                      q1 == IF up THEN q + 1 ELSE q
                  IN  IF q1 = Pow2(24) THEN <<sg * Pow2(23), e + 24>>
                      ELSE <<sg * q1, e + 23>>

\* |x| <= |y|
F32AbsLeq(x, y) ==
    IF x[1] = 0 THEN TRUE
    ELSE IF y[1] = 0 THEN FALSE
    ELSE x[2] < y[2] \/ (x[2] = y[2] /\ Abs(x[1]) <= Abs(y[1]))

\* the larger of |x| and |y|
F32AbsMax(x, y) == IF F32AbsLeq(x, y) THEN <<Abs(y[1]), y[2]>> ELSE <<Abs(x[1]), x[2]>>

\* x <= y
F32Leq(x, y) ==
    IF x[1] <= 0 /\ y[1] >= 0 THEN TRUE
    ELSE IF x[1] >= 0 /\ y[1] <= 0 THEN x[1] = 0 /\ y[1] = 0
    ELSE IF x[1] > 0 THEN F32AbsLeq(x, y)
    ELSE F32AbsLeq(y, x)

\* x * 2^k, exact
F32Scale(x, k) == IF x[1] = 0 THEN x ELSE <<x[1], x[2] + k>>

(***************************************************************************)
(* f32::cos and f32::sin on the angles the model uses (the angles of        *)
(* Angles and their f32 sums), correctly rounded.                           *)
(***************************************************************************)
AngSixth == <<8784530, -23>>      \* 1 as f32 / 6.0 * 2.0 * PI, as in the demo
AngOne   == <<8388608, -23>>      \* 1.0
AngBig   == <<8388608, 1>>        \* 16777216.0 = 2^24

CosTable(a) ==
    CASE a = <<8388608, -23>> -> <<9064768, -24>>
      [] a = <<8784530, -23>> -> <<16777215, -25>>
      [] a = <<8388608, -22>> -> <<-13963571, -25>>
      [] a = <<8586569, -22>> -> <<-15387530, -25>>
      [] a = <<8784530, -22>> -> <<-8388609, -24>>
      [] a = <<8388608, 1>>   -> <<10507956, -24>>
      [] a = <<8388609, 1>>   -> <<15039530, -25>>
      [] a = <<8388608, 2>>   -> <<-14457869, -26>>

SinTable(a) ==
    CASE a = <<8388608, -23>> -> <<14117540, -24>>
      [] a = <<8784530, -23>> -> <<14529496, -24>>
      [] a = <<8388608, -22>> -> <<15255479, -24>>
      [] a = <<8586569, -22>> -> <<14909090, -24>>
      [] a = <<8784530, -22>> -> <<14529495, -24>>
      [] a = <<8388608, 1>>   -> <<-13078908, -24>>
      [] a = <<8388609, 1>>   -> <<14997604, -24>>
      [] a = <<8388608, 2>>   -> <<-16383242, -24>>

\* f32::cos, even in its argument
F32Cos(a) == CosTable(<<Abs(a[1]), a[2]>>)

\* f32::sin, odd in its argument
F32Sin(a) == IF a[1] < 0 THEN F32Neg(SinTable(<<-a[1], a[2]>>)) ELSE SinTable(a)

(***************************************************************************)
(* The data model.  A point or vector is <<x, y>>; Positions is three       *)
(* points; a Tri is [positions, texcoords, color]; a RendTri is             *)
(* [tri, texture].                                                          *)
(***************************************************************************)
TexNone == "None"

ColorWhite == "WHITE"

PointAdd(p, v) == <<F32Add(p[1], v[1]), F32Add(p[2], v[2])>>

VecAdd(v, w) == <<F32Add(v[1], w[1]), F32Add(v[2], w[2])>>

\* the rotation of the point p about the origin
RotatePoint(p, angle) ==
    LET c == F32Cos(angle)
        s == F32Sin(angle)
    IN  << F32Sub(F32Mul(p[1], c), F32Mul(p[2], s)),
           F32Add(F32Mul(p[1], s), F32Mul(p[2], c)) >>

\* The closures handed to map_pos: <<"MoveBy", v>> is |p| p + v and
\* <<"TurnBy", angle>> is |p| the rotation of p by angle.
MoveBy(vector) == <<"MoveBy", vector>>

TurnBy(angle) == <<"TurnBy", angle>>

\* f(p)
Call(f, p) ==
    CASE f[1] = "MoveBy" -> PointAdd(p, f[2])
      [] f[1] = "TurnBy" -> RotatePoint(p, f[2])

\* an index slip: the second point taken for the third
PositionsMapSlip(self, f) == <<Call(f, self[1]), Call(f, self[2]), Call(f, self[2])>>

\* Positions::map: f on the three points, in order
PositionsMap(self, f) == <<Call(f, self[1]), Call(f, self[2]), Call(f, self[3])>>

\* the body of map_tex under the name of map_pos
map_pos_as_tex(self, f) ==
    [self EXCEPT !.tri.texcoords = PositionsMap(self.tri.texcoords, f)]

\* RendTri::map_pos
map_pos(self, f) ==
    [self EXCEPT !.tri.positions = PositionsMap(self.tri.positions, f)]

\* Tri::new
TriNew(positions, texcoords, color) ==
    [positions |-> <<positions[1], positions[2], positions[3]>>,
     texcoords |-> <<texcoords[1], texcoords[2], texcoords[3]>>,
     color     |-> color]

\* Tri::new_pos
TriNewPos(positions) ==
    TriNew(<<positions[1], positions[2], positions[3]>>,
           <<<<F32Zero, F32Zero>>, <<F32Zero, F32Zero>>, <<F32Zero, F32Zero>>>>,
           ColorWhite)

\* impl From<Tri> for RendTri
RendTriFrom(tri) == [tri |-> tri, texture |-> TexNone]

(***************************************************************************)
(* Shapes.  A shape value is <<"Rect", p0, p1>>, <<"Translate", S, v>>,     *)
(* <<"Rotate", S, angle>> or <<"Combine", A, B>>.                           *)
(***************************************************************************)
Rect(p0, p1) == <<"Rect", p0, p1>>

\* the two triangles emitted in the opposite order
RectIntoIterSwapped(self) ==
    << RendTriFrom(TriNewPos(<< <<self[3][1], self[3][2]>>,
                                <<self[2][1], self[3][2]>>,
                                <<self[3][1], self[2][2]>> >>)),
       RendTriFrom(TriNewPos(<< <<self[2][1], self[2][2]>>,
                                <<self[3][1], self[2][2]>>,
                                <<self[2][1], self[3][2]>> >>)) >>

\* the second triangle closed on the first corner instead of the top-left one
RectIntoIterBadSplit(self) ==
    << RendTriFrom(TriNewPos(<< <<self[2][1], self[2][2]>>,
                                <<self[3][1], self[2][2]>>,
                                <<self[2][1], self[3][2]>> >>)),
       RendTriFrom(TriNewPos(<< <<self[3][1], self[3][2]>>,
                                <<self[2][1], self[2][2]>>,
                                <<self[3][1], self[2][2]>> >>)) >>

\* impl IntoIterator for Rect
RectIntoIter(self) ==
    << RendTriFrom(TriNewPos(<< <<self[2][1], self[2][2]>>,
                                <<self[3][1], self[2][2]>>,
                                <<self[2][1], self[3][2]>> >>)),
       RendTriFrom(TriNewPos(<< <<self[3][1], self[3][2]>>,
                                <<self[2][1], self[3][2]>>,
                                <<self[3][1], self[2][2]>> >>)) >>

TranslateNew(shape, vector) == <<"Translate", shape, vector>>

RotateNew(shape, angle) == <<"Rotate", shape, angle>>

\* the operands stored in the opposite order
combineSwapped(self, rhs) == <<"Combine", rhs, self>>

\* the receiver stored twice
combineSelfTwice(self, rhs) == <<"Combine", self, self>>

\* Shape::combine takes both shapes by value
combine(self, rhs) == <<"Combine", self, rhs>>

\* the receiver translated in place as well
translateInPlace(self, vector) ==
    [self |-> TranslateNew(self, vector), ret |-> TranslateNew(self, vector)]

\* the components of the vector exchanged
translateTransposed(self, vector) ==
    [self |-> self, ret |-> TranslateNew(self, <<vector[2], vector[1]>>)]

\* Shape::translate borrows self and wraps a clone of it: `self` is the
\* receiver after the call, `ret` the value returned
translate(self, vector) == [self |-> self, ret |-> TranslateNew(self, vector)]

\* the sense of the rotation reversed
rotateClockwise(self, angle) == [self |-> self, ret |-> RotateNew(self, F32Neg(angle))]

\* Shape::rotate, likewise
rotate(self, angle) == [self |-> self, ret |-> RotateNew(self, angle)]

\* the triangles of Translate, given those of the wrapped shape
TranslateIter(inner, vector) ==
    [i \in 1..Len(inner) |-> map_pos(inner[i], MoveBy(vector))]

\* the triangles of Rotate, given those of the wrapped shape
RotateIter(inner, angle) ==
    [i \in 1..Len(inner) |-> map_pos(inner[i], TurnBy(angle))]

\* the triangles of Combine, given those of the two shapes
CombineIter(first, second) == first \o second

RECURSIVE IntoIter(_)
\* IntoIterator::into_iter of a shape value
IntoIter(s) ==
    CASE s[1] = "Rect"      -> RectIntoIter(s)
      [] s[1] = "Translate" -> TranslateIter(IntoIter(s[2]), s[3])
      [] s[1] = "Rotate"    -> RotateIter(IntoIter(s[2]), s[3])
      [] s[1] = "Combine"   -> CombineIter(IntoIter(s[2]), IntoIter(s[3]))

RECURSIVE Depth(_)
\* number of Translate and Rotate wrappers nested in a shape value
Depth(s) ==
    CASE s[1] = "Rect"    -> 0
      [] s[1] = "Combine" -> IF Depth(s[2]) >= Depth(s[3]) THEN Depth(s[2]) ELSE Depth(s[3])
      [] OTHER            -> 1 + Depth(s[2])

RECURSIVE Count(_)
\* number of triangles of a shape value
Count(s) ==
    CASE s[1] = "Rect"    -> 2
      [] s[1] = "Combine" -> Count(s[2]) + Count(s[3])
      [] OTHER            -> Count(s[2])

\* Rect derives Copy; the types of the wrappers and of Combine are only Clone
IsCopy(s) == s[1] = "Rect"

\* what a binding holds after IntoIterator::into_iter(self) took its value
Moved(s) == IF IsCopy(s) THEN s ELSE <<"None">>

(***************************************************************************)
(* The inputs.                                                              *)
(***************************************************************************)
FHalf    == <<8388608, -24>>      \* 0.5
FTenth   == <<13421773, -27>>     \* 0.1
FOne     == <<8388608, -23>>      \* 1.0
FBig     == <<8388608, 1>>        \* 16777216.0 = 2^24

Pts == { <<F32Neg(FHalf), F32Neg(FHalf)>>, <<FHalf, FHalf>>, <<FBig, FOne>> }

Vecs == { <<FTenth, FTenth>>, <<FOne, F32Zero>> }

Angles == { AngSixth, AngOne, AngBig }

MaxDepth == 2

MaxTris == 8

(***************************************************************************)
(* The program: a caller holds a shape in `shape`, decorates it (the        *)
(* wrapper returned is `made`, and may be moved on to `kept`), binds or     *)
(* combines the result, and hands shapes to be iterated.  into_iter takes   *)
(* its shape by value: a binding whose type is not Copy is left moved-out   *)
(* (NoShape).  `frame` is the last iteration, collected; `saved` holds the  *)
(* last two frames the caller set aside, the older first.                   *)
(***************************************************************************)
VARIABLES shape, made, kept, frame, saved

vars == <<shape, made, kept, frame, saved>>

NoShape == <<"None">>

NoFrame == [who |-> "None", of |-> NoShape, tris |-> <<>>]

\* the triangles collected from the shape s; who is "S" when s was the bound
\* shape and "W" when it was a wrapper returned by translate or rotate
Frame(who, s) == [who |-> who, of |-> s, tris |-> IntoIter(s)]

Init ==
    /\ \E p0 \in Pts, p1 \in Pts : shape = Rect(p0, p1)
    /\ made = NoShape
    /\ kept = NoShape
    /\ frame = NoFrame
    /\ saved = <<NoFrame, NoFrame>>

\* let made = shape.translate(v)
CallTranslate(v) ==
    /\ shape # NoShape
    /\ Depth(shape) < MaxDepth
    /\ made' = translate(shape, v).ret
    /\ shape' = translate(shape, v).self
    /\ UNCHANGED <<kept, frame, saved>>

\* let made = shape.rotate(a)
CallRotate(a) ==
    /\ shape # NoShape
    /\ Depth(shape) < MaxDepth
    /\ made' = rotate(shape, a).ret
    /\ shape' = rotate(shape, a).self
    /\ UNCHANGED <<kept, frame, saved>>

\* let shape = shape.combine(made)
CallCombine ==
    /\ shape # NoShape
    /\ made # NoShape
    /\ Count(shape) + Count(made) <= MaxTris
    /\ shape' = combine(shape, made)
    /\ made' = NoShape
    /\ UNCHANGED <<kept, frame, saved>>

\* let shape = made
Bind ==
    /\ made # NoShape
    /\ shape' = made
    /\ made' = NoShape
    /\ UNCHANGED <<kept, frame, saved>>

\* let kept = made
Keep ==
    /\ made # NoShape
    /\ kept' = made
    /\ made' = NoShape
    /\ UNCHANGED <<shape, frame, saved>>

\* the value held by the binding b
Held(b) ==
    CASE b = "shape" -> shape
      [] b = "made"  -> made
      [] b = "kept"  -> kept

\* b.into_iter(), collected, for the binding b: its value is taken by value,
\* so the binding is left moved-out unless the type is Copy; nothing else is
\* touched
Iterate(b) ==
    /\ Held(b) # NoShape
    /\ shape' = IF b = "shape" THEN Moved(shape) ELSE shape
    /\ made' = IF b = "made" THEN Moved(made) ELSE made
    /\ kept' = IF b = "kept" THEN Moved(kept) ELSE kept
    /\ UNCHANGED saved
    /\ frame' = Frame(IF b = "shape" THEN "S" ELSE "W", Held(b))

\* the caller sets the triangles just collected aside
KeepFrame ==
    /\ frame # NoFrame
    /\ frame # saved[2]
    /\ saved' = <<saved[2], frame>>
    /\ UNCHANGED <<shape, made, kept, frame>>

Next ==
    \/ \E v \in Vecs : CallTranslate(v)
    \/ \E a \in Angles : CallRotate(a)
    \/ Bind
    \/ \E b \in {"shape", "made"} : Iterate(b)

Spec == Init /\ [][Next]_vars

\* the same caller, assembling unions
NextCombine ==
    \/ \E v \in Vecs : CallTranslate(v)
    \/ \E a \in {AngSixth} : CallRotate(a)
    \/ CallCombine
    \/ Bind
    \/ \E b \in {"shape", "made"} : Iterate(b)

SpecCombine == Init /\ [][NextCombine]_vars

\* a caller that starts from a rectangle or from a petal (a translated
\* rectangle), decorates it over and over and redraws
InitPetal ==
    /\ \E p0 \in Pts, p1 \in Pts :
         shape \in {Rect(p0, p1)} \cup {translate(Rect(p0, p1), v).ret : v \in Vecs}
    /\ made = NoShape
    /\ kept = NoShape
    /\ frame = NoFrame
    /\ saved = <<NoFrame, NoFrame>>

NextRedraw ==
    \/ \E v \in Vecs : CallTranslate(v)
    \/ \E a \in {AngSixth} : CallRotate(a)
    \/ Keep
    \/ \E b \in {"shape", "made", "kept"} : Iterate(b)
    \/ KeepFrame

SpecRedraw == InitPetal /\ [][NextRedraw]_vars

(***************************************************************************)
(* Helpers of the properties.                                               *)
(***************************************************************************)
IsKind(s, k) == s[1] = k

\* texcoords, colour and texture of t equal those of u
SameAppearance(t, u) ==
    /\ t.tri.texcoords = u.tri.texcoords
    /\ t.tri.color = u.tri.color
    /\ t.texture = u.texture

\* the triangle with the three given points and the defaults of Tri::new_pos
PlainTri(a, b, c) ==
    [tri |-> [positions |-> <<a, b, c>>,
              texcoords |-> << <<F32Zero, F32Zero>>, <<F32Zero, F32Zero>>,
                               <<F32Zero, F32Zero>> >>,
              color     |-> ColorWhite],
     texture |-> TexNone]

F32Min(x, y) == IF F32Leq(x, y) THEN x ELSE y

F32Max(x, y) == IF F32Leq(x, y) THEN y ELSE x

\* the set of the three position points of a triangle
Verts(t) == {t.tri.positions[k] : k \in 1..3}

\* |x - y| <= 2^k * scale
Within(x, y, k, scale) == F32AbsLeq(F32Sub(x, y), F32Scale(scale, k))

(***************************************************************************)
(* C1 as stated: iterating any Rect(p0, p1) yields exactly two triangles,   *)
(* the first (bottom-left, bottom-right, top-left), the second (top-right,  *)
(* top-left, bottom-right) of the rectangle, with no texture, zero          *)
(* texcoords and the default colour.                                        *)
(***************************************************************************)
C1_AsStated ==
    (IsKind(frame.of, "Rect")) =>
        LET p0  == frame.of[2]
            p1  == frame.of[3]
            lft == F32Min(p0[1], p1[1])
            rgt == F32Max(p0[1], p1[1])
            bot == F32Min(p0[2], p1[2])
            top == F32Max(p0[2], p1[2])
        IN  frame.tris = << PlainTri(<<lft, bot>>, <<rgt, bot>>, <<lft, top>>),
                            PlainTri(<<rgt, top>>, <<lft, top>>, <<rgt, bot>>) >>

(***************************************************************************)
(* C1 amended: iterating Rect(p0, p1) yields exactly two triangles, the     *)
(* first with positions ((p0.x,p0.y), (p1.x,p0.y), (p0.x,p1.y)), the second *)
(* with ((p1.x,p1.y), (p0.x,p1.y), (p1.x,p0.y)), both with no texture, zero *)
(* texcoords and the default colour; these are (bottom-left, bottom-right,  *)
(* top-left) and (top-right, top-left, bottom-right) when p0 is the         *)
(* bottom-left and p1 the top-right corner.                                 *)
(***************************************************************************)
C1_RectTriangles ==
    (IsKind(frame.of, "Rect")) =>
        LET p0 == frame.of[2]
            p1 == frame.of[3]
        IN  /\ Len(frame.tris) = 2
            /\ frame.tris[1] =
                 PlainTri(<<p0[1], p0[2]>>, <<p1[1], p0[2]>>, <<p0[1], p1[2]>>)
            /\ frame.tris[2] =
                 PlainTri(<<p1[1], p1[2]>>, <<p0[1], p1[2]>>, <<p1[1], p0[2]>>)
            /\ (F32Leq(p0[1], p1[1]) /\ F32Leq(p0[2], p1[2])) =>
                 /\ frame.tris[1].tri.positions =
                      << <<F32Min(p0[1], p1[1]), F32Min(p0[2], p1[2])>>,
                         <<F32Max(p0[1], p1[1]), F32Min(p0[2], p1[2])>>,
                         <<F32Min(p0[1], p1[1]), F32Max(p0[2], p1[2])>> >>
                 /\ frame.tris[2].tri.positions =
                      << <<F32Max(p0[1], p1[1]), F32Max(p0[2], p1[2])>>,
                         <<F32Min(p0[1], p1[1]), F32Max(p0[2], p1[2])>>,
                         <<F32Max(p0[1], p1[1]), F32Min(p0[2], p1[2])>> >>

\* a Rect given bottom-left first has been iterated
C1_Witness ==
    /\ IsKind(frame.of, "Rect")
    /\ frame.of[2] # frame.of[3]
    /\ F32Leq(frame.of[2][1], frame.of[3][1])
    /\ F32Leq(frame.of[2][2], frame.of[3][2])
    /\ Len(frame.tris) = 2

(***************************************************************************)
(* C2: iterating S.translate(v) yields as many triangles as iterating S, in *)
(* the same order; each position point is the corresponding point of S      *)
(* plus v, point order kept; texcoords, colour and texture are those of S.  *)
(***************************************************************************)
C2_Translate ==
    (IsKind(frame.of, "Translate")) =>
        LET inner == IntoIter(frame.of[2])
            v     == frame.of[3]
        IN  /\ Len(frame.tris) = Len(inner)
            /\ \A i \in 1..Len(inner) :
                 /\ SameAppearance(frame.tris[i], inner[i])
                 /\ \A k \in 1..3 :
                      /\ frame.tris[i].tri.positions[k][1] =
                           F32Add(inner[i].tri.positions[k][1], v[1])
                      /\ frame.tris[i].tri.positions[k][2] =
                           F32Add(inner[i].tri.positions[k][2], v[2])

\* a translated shape with distinguishable points has been iterated
C2_Witness ==
    /\ IsKind(frame.of, "Translate")
    /\ Len(frame.tris) >= 2
    /\ Cardinality(Verts(frame.tris[1])) = 3
    /\ frame.tris # IntoIter(frame.of[2])

(***************************************************************************)
(* C3: iterating S.rotate(t) yields as many triangles as iterating S, in    *)
(* the same order; every position point (x, y) becomes                      *)
(* (x cos t - y sin t, x sin t + y cos t), a rotation about the origin;     *)
(* texcoords, colour and texture are those of S.                            *)
(***************************************************************************)
C3_Rotate ==
    (IsKind(frame.of, "Rotate")) =>
        LET inner == IntoIter(frame.of[2])
            c     == F32Cos(frame.of[3])
            sn    == F32Sin(frame.of[3])
        IN  /\ Len(frame.tris) = Len(inner)
            /\ \A i \in 1..Len(inner) :
                 /\ SameAppearance(frame.tris[i], inner[i])
                 /\ \A k \in 1..3 :
                      LET x == inner[i].tri.positions[k][1]
                          y == inner[i].tri.positions[k][2]
                      IN  /\ frame.tris[i].tri.positions[k][1] =
                               F32Sub(F32Mul(x, c), F32Mul(y, sn))
                          /\ frame.tris[i].tri.positions[k][2] =
                               F32Add(F32Mul(x, sn), F32Mul(y, c))

\* a rotated shape with distinguishable points has been iterated
C3_Witness ==
    /\ IsKind(frame.of, "Rotate")
    /\ Len(frame.tris) >= 2
    /\ Cardinality(Verts(frame.tris[1])) = 3
    /\ frame.tris # IntoIter(frame.of[2])

\* the four corners of the rectangle on p0 and p1
Corners(p0, p1) ==
    { <<p0[1], p0[2]>>, <<p1[1], p0[2]>>, <<p0[1], p1[2]>>, <<p1[1], p1[2]>> }

\* its two diagonals, as pairs of corners
Diagonals(p0, p1) ==
    { { <<p0[1], p0[2]>>, <<p1[1], p1[2]>> },
      { <<p1[1], p0[2]>>, <<p0[1], p1[2]>> } }

\* two triangles on the corners that share a diagonal
CoversRect(tris, p0, p1) ==
    /\ Len(tris) = 2
    /\ Verts(tris[1]) \cup Verts(tris[2]) = Corners(p0, p1)
    /\ \E d \in Diagonals(p0, p1) :
         /\ d \subseteq Verts(tris[1])
         /\ d \subseteq Verts(tris[2])

(***************************************************************************)
(* C10: Rect(p0, p1) and Rect(p1, p0) each yield exactly two triangles      *)
(* covering the same rectangle: the two triangles share one diagonal, their *)
(* points are the four corners (p0.x,p0.y), (p1.x,p0.y), (p0.x,p1.y),       *)
(* (p1.x,p1.y), and no other point appears.                                 *)
(***************************************************************************)
C10_CornerOrder ==
    (IsKind(frame.of, "Rect")) =>
        LET p0 == frame.of[2]
            p1 == frame.of[3]
        IN  /\ CoversRect(frame.tris, p0, p1)
            /\ CoversRect(IntoIter(Rect(p1, p0)), p0, p1)

\* a Rect whose corners differ in both coordinates has been iterated
C10_Witness ==
    /\ IsKind(frame.of, "Rect")
    /\ frame.of[2][1] # frame.of[3][1]
    /\ frame.of[2][2] # frame.of[3][2]
    /\ ~F32Leq(frame.of[2][1], frame.of[3][1])
    /\ Len(frame.tris) = 2

\* tris is first followed by second
IsConcat(tris, first, second) == tris = first \o second

(***************************************************************************)
(* C4: iterating A.combine(B) yields the triangles of A followed by those   *)
(* of B: |A| + |B| of them, each side in its own order, none dropped,       *)
(* repeated, interleaved or changed.  Checked on the call (the shape bound  *)
(* after shape.combine(made), which takes both by value, iterates as shape  *)
(* then made) and on every iteration of a Combine.                          *)
(***************************************************************************)
C4_Combine ==
    [][ /\ (made # NoShape /\ made' = NoShape /\ shape' # made /\ shape' # shape) =>
             IsConcat(IntoIter(shape'), IntoIter(shape), IntoIter(made))
        /\ (frame' # frame /\ IsKind(frame'.of, "Combine")) =>
             IsConcat(frame'.tris, IntoIter(frame'.of[2]), IntoIter(frame'.of[3]))
      ]_vars

\* a union of two shapes with different triangles has been iterated, by value
C4_Witness ==
    /\ IsKind(frame.of, "Combine")
    /\ shape = NoShape
    /\ Len(frame.tris) >= 4
    /\ IntoIter(frame.of[2]) # IntoIter(frame.of[3])

(***************************************************************************)
(* C7: combine is associative on the emitted sequence: iterating            *)
(* (A.combine(B)).combine(C) yields the same triangles in the same order as *)
(* iterating A.combine(B.combine(C)).                                       *)
(***************************************************************************)
C7_CombineAssoc ==
    (IsKind(frame.of, "Combine") /\ IsKind(frame.of[2], "Combine")) =>
        LET a == frame.of[2][2]
            b == frame.of[2][3]
            c == frame.of[3]
        IN  frame.tris = IntoIter(combine(a, combine(b, c)))

\* a union of a union and a third shape, all three different, has been iterated
C7_Witness ==
    /\ IsKind(frame.of, "Combine")
    /\ IsKind(frame.of[2], "Combine")
    /\ Len(frame.tris) = 8
    /\ IntoIter(frame.of[2][2]) # IntoIter(frame.of[2][3])
    /\ IntoIter(frame.of[2]) # IntoIter(frame.of[3])

(***************************************************************************)
(* C9: translate commutes with combine: iterating A.combine(B).translate(v) *)
(* yields the same triangles in the same order as iterating                 *)
(* A.translate(v).combine(B.translate(v)).                                  *)
(***************************************************************************)
C9_TranslateCombine ==
    (IsKind(frame.of, "Translate") /\ IsKind(frame.of[2], "Combine")) =>
        LET a == frame.of[2][2]
            b == frame.of[2][3]
            v == frame.of[3]
        IN  frame.tris =
              IntoIter(combine(translate(a, v).ret, translate(b, v).ret))

\* a translated union of two different shapes has been iterated
C9_Witness ==
    /\ IsKind(frame.of, "Translate")
    /\ IsKind(frame.of[2], "Combine")
    /\ Len(frame.tris) >= 4
    /\ IntoIter(frame.of[2][2]) # IntoIter(frame.of[2][3])

\* a call of translate or rotate on the bound shape
DecorateStep ==
    \/ \E v \in Vecs : CallTranslate(v)
    \/ \E a \in Angles : CallRotate(a)

\* the triangles a wrapper w yields when its shape yields tris
Decorated(w, tris) ==
    IF w[1] = "Translate" THEN TranslateIter(tris, w[3]) ELSE RotateIter(tris, w[3])

\* the later frame g agrees with the earlier frame f of the same bound shape
Consistent(f, g) ==
    CASE f.who = "S" /\ g.who = "S" -> g.tris = f.tris
      [] f.who = "S" /\ g.who = "W" -> g.tris = Decorated(g.of, f.tris)
      [] f.who = "W" /\ g.who = "S" -> f.tris = Decorated(f.of, g.tris)
      [] f.who = "W" /\ g.who = "W" ->
           (f.of[1] = g.of[1] /\ f.of[3] = g.of[3]) => g.tris = f.tris
      [] OTHER -> TRUE

C6_AsStated ==
    (IsKind(frame.of, "Translate") /\ IsKind(frame.of[2], "Translate")) =>
        LET s  == frame.of[2][2]
            v1 == frame.of[2][3]
            v2 == frame.of[3]
        IN  frame.tris = IntoIter(translate(s, VecAdd(v1, v2)).ret)

\* lhs = (p + a) + b and rhs = p + (a + b) agree as far as f32 addition allows
TranslateTwiceClose(p, a, b, lhs, rhs) ==
    /\ ( /\ F32AddExact(p, a)
         /\ F32AddExact(F32Add(p, a), b)
         /\ F32AddExact(a, b)
         /\ F32AddExact(p, F32Add(a, b)) ) => lhs = rhs
    /\ Within(lhs, rhs, -20, F32AbsMax(p, F32AbsMax(a, b)))

(***************************************************************************)
(* C6 amended: iterating S.translate(v1).translate(v2) and iterating        *)
(* S.translate(v1 + v2) yield equally many triangles in the same order with *)
(* the same texcoords, colour and texture; a position coordinate is the     *)
(* same in both whenever none of the four f32 additions involved (p + v1,   *)
(* (p + v1) + v2, v1 + v2, p + (v1 + v2)) rounds, and otherwise the two     *)
(* differ by at most 2^-20 times the largest of |p|, |v1|, |v2|.            *)
(***************************************************************************)
C6_TranslateTwice ==
    (IsKind(frame.of, "Translate") /\ IsKind(frame.of[2], "Translate")) =>
        LET s     == frame.of[2][2]
            v1    == frame.of[2][3]
            v2    == frame.of[3]
            inner == IntoIter(s)
            once  == IntoIter(translate(s, VecAdd(v1, v2)).ret)
        IN  /\ Len(frame.tris) = Len(once)
            /\ Len(once) = Len(inner)
            /\ \A i \in 1..Len(inner) :
                 /\ SameAppearance(frame.tris[i], once[i])
                 /\ \A k \in 1..3 : \A c \in 1..2 :
                      TranslateTwiceClose(inner[i].tri.positions[k][c], v1[c], v2[c],
                                          frame.tris[i].tri.positions[k][c],
                                          once[i].tri.positions[k][c])

\* a shape translated twice has been iterated, with sums that round
\* and sums that do not
C6_Witness ==
    /\ IsKind(frame.of, "Translate")
    /\ IsKind(frame.of[2], "Translate")
    /\ Len(frame.tris) >= 2
    /\ LET s     == frame.of[2][2]
           v1    == frame.of[2][3]
           v2    == frame.of[3]
           inner == IntoIter(s)
       IN  /\ \E i \in 1..Len(inner), k \in 1..3 :
                LET p == inner[i].tri.positions[k][1]
                IN  /\ F32AddExact(p, v1[1])
                    /\ F32AddExact(F32Add(p, v1[1]), v2[1])
                    /\ F32AddExact(v1[1], v2[1])
                    /\ F32AddExact(p, F32Add(v1[1], v2[1]))
                    /\ v1[1] # F32Zero
           /\ \E i \in 1..Len(inner), k \in 1..3 :
                ~F32AddExact(inner[i].tri.positions[k][1], v1[1])

\* tris, the triangles of s.rotate(a).rotate(b), agree with those of
\* s.rotate(a + b) and of s.rotate(b).rotate(a) up to 2^-18 of the point's size
RotateTwiceClose(s, a, b, tris) ==
    LET inner == IntoIter(s)
        once  == IntoIter(rotate(s, F32Add(a, b)).ret)
        other == IntoIter(rotate(rotate(s, b).ret, a).ret)
    IN  /\ Len(tris) = Len(once)
        /\ Len(tris) = Len(other)
        /\ Len(tris) = Len(inner)
        /\ \A i \in 1..Len(inner) :
             /\ SameAppearance(tris[i], once[i])
             /\ SameAppearance(tris[i], other[i])
             /\ \A k \in 1..3 : \A c \in 1..2 :
                  LET scale == F32AbsMax(inner[i].tri.positions[k][1],
                                         inner[i].tri.positions[k][2])
                  IN  /\ Within(tris[i].tri.positions[k][c],
                                once[i].tri.positions[k][c], -18, scale)
                      /\ Within(tris[i].tri.positions[k][c],
                                other[i].tri.positions[k][c], -18, scale)

(***************************************************************************)
(* C5 as stated: for all angles a and b, iterating S.rotate(a).rotate(b)    *)
(* yields the same triangle sequence as iterating S.rotate(a + b), and as   *)
(* iterating S.rotate(b).rotate(a): same length, order, texcoords, colour   *)
(* and texture, positions equal up to floating-point tolerance (here 2^-18  *)
(* times the larger coordinate magnitude of the point rotated).             *)
(***************************************************************************)
C5_AsStated ==
    (IsKind(frame.of, "Rotate") /\ IsKind(frame.of[2], "Rotate")) =>
        RotateTwiceClose(frame.of[2][2], frame.of[2][3], frame.of[3], frame.tris)

FEight == <<8388608, -20>>      \* 8.0

SmallAngle(a) == F32AbsLeq(a, FEight)

(***************************************************************************)
(* C5 amended: the same, for angles a and b of magnitude at most 8 (which   *)
(* holds every angle within two turns of zero), where the f32 sum a + b is  *)
(* off by at most 2^-21 radians.  For large angles the f32 sum a + b loses  *)
(* part of the angle (16777216 + 1 = 16777216) and the two shapes differ by *)
(* the lost rotation.                                                       *)
(***************************************************************************)
C5_RotateTwice ==
    ( /\ IsKind(frame.of, "Rotate")
      /\ IsKind(frame.of[2], "Rotate")
      /\ SmallAngle(frame.of[2][3])
      /\ SmallAngle(frame.of[3]) ) =>
        RotateTwiceClose(frame.of[2][2], frame.of[2][3], frame.of[3], frame.tris)

\* a shape rotated by two different small angles has been iterated, and
\* the result differs in some bit from the single rotation by the sum
C5_Witness ==
    /\ IsKind(frame.of, "Rotate")
    /\ IsKind(frame.of[2], "Rotate")
    /\ SmallAngle(frame.of[2][3])
    /\ SmallAngle(frame.of[3])
    /\ frame.of[2][3] # frame.of[3]
    /\ Len(frame.tris) >= 2
    /\ frame.tris # IntoIter(rotate(frame.of[2][2], F32Add(frame.of[2][3], frame.of[3])).ret)

====
